---- MODULE Spec2Model ----
(***************************************************************************)
(* hapi-pino: the plugin's register function (src/index.js, lines 88-355)  *)
(* as a state machine.  The host framework (hapi) delivers lifecycle       *)
(* events; the handlers registered by the plugin turn them into calls on   *)
(* the pino logger, which are recorded in `records`.                       *)
(***************************************************************************)
EXTENDS Integers, Sequences, FiniteSets, TLC

VARIABLES
  options,           \* the options object the caller passes to register
  regState,          \* "pending" | "registered" | "failed"
  server,            \* what register has installed on the hapi server
  ignoredEventTags,  \* the module-level table (index.js:83)
  serverPhase,       \* "initialized" | "started" | "stopped"
  requests,          \* request id -> the request object as the host holds it
  records,           \* the calls made on the logger, in order
  lastEvent,         \* the event that the latest call on the logger logged
  nEvents,           \* number of server.log / request events delivered so far
  delivered,         \* the latest event the host emitted, and the calls made for it
  heap,              \* the objects: the caller's options, register's copy, the instance
  peers,             \* the options of the other plugin instances registered so far
  twin               \* two servers of one process that are run through one script

vars == <<options, regState, server, ignoredEventTags, serverPhase, requests,
          records, lastEvent, nEvents, delivered, heap, peers, twin>>

----------------------------------------------------------------------------
\* Bounds of the model

MaxEvents == 1
MaxTags == 2

\* the requests in flight
ReqIds == {1}

\* two requests in flight at the same time
TwoReqIds == {1, 2}

----------------------------------------------------------------------------
\* JavaScript helpers

\* a property is present on an object
Has(o, k) == k \in DOMAIN o

\* Object.assign({}, a, b)
Merge(a, b) ==
  [k \in (DOMAIN a) \cup (DOMAIN b) |-> IF k \in DOMAIN b THEN b[k] ELSE a[k]]

\* the object {}
EmptyObject == [k \in {} |-> "undefined"]

\* truthiness of a value returned by a user-supplied predicate
Truthy(v) == v \in {"true", "1"}

Range(s) == {s[i] : i \in DOMAIN s}

\* arr[index] with a 0-based index; out of range reads undefined
At(arr, index) ==
  IF index >= 0 /\ index < Len(arr) THEN arr[index + 1] ELSE "undefined"

SeqsUpTo(S, n) == UNION {[1..k -> S] : k \in 0..n}

----------------------------------------------------------------------------
\* The logger (pino) as the plugin uses it

\* logger.levels.values of a pino logger without custom levels
PinoLevels ==
  [trace |-> 10, debug |-> 20, info |-> 30, warn |-> 40, error |-> 50, fatal |-> 60]

\* logger.levels.values: the standard levels plus options.customLevels
LevelValues(o) ==
  IF Has(o, "customLevels") THEN Merge(PinoLevels, o.customLevels) ELSE PinoLevels

\* logger.levels.labels[n]
LevelLabel(o, n) == CHOOSE l \in DOMAIN LevelValues(o) : LevelValues(o)[l] = n

\* the bindings of the root logger
NoBindings == [req |-> "absent", requestId |-> "absent", owner |-> 0]

\* request.logger values: absent, the abstract-logging no-op, or a child
AbsentLogger == [kind |-> "absent", bindings |-> NoBindings]
nullLogger == [kind |-> "null", bindings |-> NoBindings]
RootLogger == [kind |-> "pino", bindings |-> NoBindings]

\* logger.child(bindings)
Child(bindings) == [kind |-> "pino", bindings |-> bindings]

\* a call current[level](obj, msg): nothing comes out of the no-op logger,
\* a pino logger writes obj together with its own bindings
Emit(current, record) ==
  IF current.kind = "pino"
  THEN <<[record EXCEPT !.bindings = current.bindings]>>
  ELSE <<>>

\* the fields of one call on the logger: obj holds the defined fields of the
\* object that logEvent and the 'response' listener build, msgTime the
\* responseTime handed to the message builder
Record(kind, rid, level, err, reqField, msg) ==
  [kind |-> kind, rid |-> rid, level |-> level, err |-> err,
   reqField |-> reqField, msg |-> msg, bindings |-> NoBindings,
   obj |-> EmptyObject, msgTime |-> 0]

\* number of "req": keys in the line pino writes for a record: one from the
\* bindings when they hold a defined req, one from the logged object
ReqKeys(rec) ==
  (IF rec.bindings.req # "absent" THEN 1 ELSE 0) + (IF rec.reqField THEN 1 ELSE 0)

----------------------------------------------------------------------------
\* Module-level tables

levelTags ==
  [trace |-> "trace", debug |-> "debug", info |-> "info",
   warn |-> "warn", error |-> "error", fatal |-> "fatal"]

Star == [star |-> TRUE, list |-> <<>>]

ignoredEventTagsDefault == [log |-> Star, request |-> Star]

----------------------------------------------------------------------------
\* The options a caller may pass.  An option that is not passed is a key
\* that is absent from the record.  User-supplied functions are named.

\* options.ignoreFunc(options, request)
CallIgnoreFunc(f, request) ==
  CASE f = "pathIsSomething" ->
         IF request.path = "/something" THEN "true" ELSE "false"
    [] f = "returnsUndefined" -> "undefined"
    [] f = "returnsOne" -> "1"

\* options.logRequestStart(request) / options.logRequestComplete(request)
CallPredicate(f, request) ==
  CASE f = "pathIsNotIgnored" ->
         IF request.path # "/ignored" THEN "true" ELSE "false"
    [] f = "returnsUndefined" -> "undefined"

PredicateFunctions == {"pathIsNotIgnored", "returnsUndefined"}

\* options.getChildBindings(request)
CallGetChildBindings(f, rid) ==
  CASE f = "requestId" ->
         [req |-> "absent", requestId |-> "request1234", owner |-> rid]
    [] f = "reqFalse" ->
         [req |-> "false", requestId |-> "request1234", owner |-> rid]

\* truthiness of a binding value
TruthyBinding(v) == v \notin {"absent", "false"}

LogEventsAll ==
  [kind |-> "array", items |-> {"onPostStart", "onPostStop", "response", "request-error"}]

LogEventsFalse == [kind |-> "false", items |-> {}]

LogEventsNull == [kind |-> "null", items |-> {}]

\* the empty options object, or one that sets key k to one of vals
Choice(k, vals) == {EmptyObject} \cup {k :> v : v \in vals}

Product(A, B) == {Merge(a, b) : a \in A, b \in B}

LevelOptions ==
  Product(Product(
    Choice("tags", {[aaa |-> "info", bbb |-> "warn"], [aaa |-> "bar"],
                    [bbb |-> "not a level"]}),
    Choice("allTags", {"debug", "not a level"})),
    Choice("customLevels", {[bar |-> 123]}))

IgnoreOptions ==
  Product(Product(Product(
    Choice("ignoreFunc", {"pathIsSomething", "returnsUndefined", "returnsOne"}),
    Choice("ignorePaths", {<<"/ignored">>})),
    Choice("ignoreTags", {<<"foo">>})),
    {"logRequestStart" :> "true"})

LifecycleOptions ==
  Product(Product(
    Choice("logRequestStart", {"true", "false", "pathIsNotIgnored"}),
    Choice("logRequestComplete", {"false"})),
    Choice("getChildBindings", {"requestId", "reqFalse"}))

LogEventsOptions ==
  Choice("logEvents",
         {LogEventsFalse, [kind |-> "array", items |-> {"request-error"}]})

MessageOptions ==
  Product(Product(Product(
    Choice("customRequestStartMessage", {"custom start message"}),
    Choice("customRequestCompleteMessage", {"custom complete message"})),
    Choice("customRequestErrorMessage", {"custom error message"})),
    {"logRequestStart" :> "true"})

EventTagOptions ==
  Choice("ignoredEventTags",
         {[log |-> [star |-> FALSE, list |-> <<"aaa">>]],
          [request |-> [star |-> FALSE, list |-> <<"bbb">>]]})

\* logEvents: not passed, false, null, or any list of the four names
LogEventsListOptions ==
  Choice("logEvents",
         {LogEventsFalse, LogEventsNull}
           \cup {[kind |-> "array", items |-> items] : items \in SUBSET LogEventsAll.items})

PayloadOptions ==
  Product(Choice("mergeHapiLogData", {"true", "false"}),
          Choice("messageKey", {"message"}))

\* logRequestStart: not passed, a boolean, a function, or the number 1
StartOptions ==
  Product(Product(
    Choice("logRequestStart",
           {"true", "false", "1", "pathIsNotIgnored", "returnsUndefined"}),
    Choice("customRequestStartMessage", {"custom start message"})),
    Choice("ignorePaths", {<<"/something">>}))

\* logRequestComplete: not passed, a boolean, a function, or the number 0
CompleteOptions ==
  Product(Product(
    Choice("logRequestComplete",
           {"true", "false", "0", "pathIsNotIgnored", "returnsUndefined"}),
    Choice("logEvents", {[kind |-> "array", items |-> {"onPostStart", "response"}],
                         [kind |-> "array", items |-> {"request-error"}]})),
    Choice("ignorePaths", {<<"/something">>}))

\* the flags that add fields to the completion record
ResponseOptions ==
  Product(Product(Product(Product(
    Choice("logPayload", {"true"}),
    Choice("logQueryParams", {"true"})),
    Choice("logPathParams", {"true"})),
    Choice("logRouteTags", {"true", "false"})),
    Choice("log4xxResponseErrors", {"true", "false"}))

\* the serializers a caller passes in options.serializers
SerializersOptions ==
  Choice("serializers",
         {EmptyObject,
          "req" :> [wrapped |-> FALSE, fn |-> "custom.req"],
          "err" :> [wrapped |-> FALSE, fn |-> "custom.err"],
          [err |-> [wrapped |-> FALSE, fn |-> "custom.err"],
           res |-> [wrapped |-> FALSE, fn |-> "custom.res"]]})

\* options with nested objects that register completes with defaults
NestedOptions ==
  Product(Product(Product(
    SerializersOptions,
    Choice("transport", {"target" :> "pino-pretty",
                         [target |-> "pino-pretty", caller |-> "app.js"]})),
    Choice("logEvents", {LogEventsFalse})),
    Choice("stream", {EmptyObject}))

\* a pino instance made beforehand: with pino's default serializers, with
\* serializers of its own, with both
InstanceOptions ==
  Product(Product(
    SerializersOptions,
    Choice("wrapSerializers", {"false"})),
    {"instance" :> [serializers |-> sers] :
       sers \in {"err" :> [wrapped |-> FALSE, fn |-> "std.err"],
                 [err |-> [wrapped |-> FALSE, fn |-> "own.err"],
                  req |-> [wrapped |-> FALSE, fn |-> "own.req"]],
                 [err |-> [wrapped |-> FALSE, fn |-> "std.err"],
                  res |-> [wrapped |-> FALSE, fn |-> "own.res"]]}})

\* options.tags: an entry that replaces a default, one that adds a tag, both
TagOptions ==
  Choice("tags", {[error |-> "info"], [aaa |-> "warn"],
                  [error |-> "debug", aaa |-> "error"]})

\* options that decide which events are suppressed and at which level the
\* others are logged
TwinOptions ==
  Product(Product(
    EventTagOptions,
    Choice("tags", {[aaa |-> "warn"]})),
    Choice("ignorePaths", {<<"/ignored">>}))

\* options under which the requests of one server are treated differently:
\* per-request predicates, an ignored path, custom bindings
ConcurrentOptions ==
  Product(Product(Product(
    Choice("logRequestStart", {"true", "pathIsNotIgnored"}),
    Choice("logRequestComplete", {"pathIsNotIgnored"})),
    Choice("ignorePaths", {<<"/something">>})),
    Choice("getChildBindings", {"requestId"}))

\* user-supplied functions that throw: "throws" in the place of the
\* function (a message builder is otherwise named by the message it returns)
ThrowOptions ==
  Product(Product(Product(Product(Product(
    Choice("ignoreFunc", {"throws"}),
    Choice("logRequestStart", {"true", "throws"})),
    Choice("logRequestComplete", {"throws"})),
    Choice("customRequestStartMessage", {"throws"})),
    Choice("customRequestCompleteMessage", {"throws"})),
    Choice("customRequestErrorMessage", {"throws"}))

\* options that ignore requests by path, by route tag or by a predicate
RerouteOptions ==
  Product(Product(
    Choice("ignoreFunc", {"pathIsSomething"}),
    Choice("ignorePaths", {<<"/ignored">>})),
    Choice("ignoreTags", {<<"foo">>}))

\* logEvents that name none of the four events: false, null, the empty list
QuietOptions ==
  Product(
    {"logEvents" :> v :
       v \in {LogEventsFalse, LogEventsNull, [kind |-> "array", items |-> {}]}},
    Choice("logRequestStart", {"true"}))

\* ignoreTags: not passed, empty, one tag, two tags; every registration
\* logs the request start
IgnoreTagsOptions ==
  Product(Product(
    Choice("ignoreTags", {<<>>, <<"foo">>, <<"bar", "foo">>, <<"qux">>}),
    Choice("ignorePaths", {<<"/ignored">>})),
    {"logRequestStart" :> "true"})

OptionsSet ==
  LifecycleOptions \cup LogEventsOptions \cup MessageOptions \cup EventTagOptions

\* the requests the host may receive: path and the tags of the matched route
RequestShapes ==
  { [path |-> "/something", hasRouteTags |-> TRUE, routeTags |-> <<"foo">>],
    [path |-> "/ignored", hasRouteTags |-> FALSE, routeTags |-> <<>>],
    [path |-> "/foo", hasRouteTags |-> FALSE, routeTags |-> <<>>] }

\* requests to routes without tags, with an empty tag list, with one and
\* with two tags
TaggedShapes ==
  {[path |-> path, hasRouteTags |-> TRUE, routeTags |-> routeTags] :
     path \in {"/foo", "/ignored"},
     routeTags \in {<<>>, <<"foo">>, <<"bar", "baz">>, <<"baz", "foo">>}}
    \cup {[path |-> "/foo", hasRouteTags |-> FALSE, routeTags |-> <<>>]}

\* what the host has put on a request when it emits 'response': the status
\* code and source of request.response, request.info and request.payload
\* (info.completed is absent on hosts that do not set it)
PlainResponse ==
  [statusCode |-> 200, source |-> "source", payload |-> "undefined",
   info |-> [received |-> 10, responded |-> 12, completed |-> 15]]

\* request.info at 'response': responded is 0 when nothing was sent,
\* completed is absent on hosts that do not set it
ResponseInfos ==
  { [received |-> 10, responded |-> 12, completed |-> 15],
    [received |-> 10, responded |-> 12, completed |-> 0],
    [received |-> 10, responded |-> 0, completed |-> 15],
    [received |-> 10, responded |-> 12] }

StatusCodes == {200, 399, 400, 404, 499, 500}

HostResponses ==
  {[statusCode |-> statusCode, source |-> "source", payload |-> payload, info |-> info] :
     statusCode \in StatusCodes, payload \in {"undefined", "payload"},
     info \in ResponseInfos}

NewRequest ==
  [stage |-> "new", path |-> "/foo", hasRouteTags |-> FALSE, routeTags |-> <<>>,
   logger |-> AbsentLogger, hostErrors |-> 0, otherErrors |-> 0,
   response |-> PlainResponse, removed |-> FALSE, threw |-> <<>>]

\* tags the application passes to server.log / request.log
EventTagNames == {"aaa", "bbb", "error"}

EventTagLists == SeqsUpTo(EventTagNames, MaxTags)

\* event.error: absent, or an Error with this message
EventErrors == {"undefined", "boom"}

\* event.data: typeof data, its value when it is a string or a number, its
\* fields when it is an object
NoData == [kind |-> "undefined", value |-> "", fields |-> EmptyObject]

EventData ==
  { NoData,
    [kind |-> "string", value |-> "hello world", fields |-> EmptyObject],
    [kind |-> "number", value |-> "1", fields |-> EmptyObject],
    [kind |-> "object", value |-> "", fields |-> "hello" :> "world"],
    [kind |-> "object", value |-> "", fields |-> "tags" :> <<"mine">>] }

\* no event: the call on the logger was made for a lifecycle hook
NoEvent == [channel |-> "none", tags |-> <<>>, error |-> "undefined", data |-> NoData]

\* request.log(tags) and request.log(tags, error)
AppEvents ==
  {[channel |-> "app", tags |-> tags, error |-> error, data |-> NoData] :
     tags \in EventTagLists, error \in EventErrors}

\* the same calls without an error: server.log(tags), request.log(tags)
TagListEvents == {event \in AppEvents : event.error = "undefined"}

\* the same calls with the tags aaa and bbb
TaggedEvents ==
  {[channel |-> "app", tags |-> tags, error |-> error, data |-> NoData] :
     tags \in {<<>>, <<"aaa">>, <<"bbb">>, <<"aaa", "bbb">>}, error \in EventErrors}

PlainTaggedEvents == {event \in TaggedEvents : event.error = "undefined"}

\* server.log(['aaa']) and request.log(['aaa'])
OneEvent ==
  {[channel |-> "app", tags |-> <<"aaa">>, error |-> "undefined", data |-> NoData]}

\* server.log(tags, data) and request.log(tags, data) with one tag
DataEvents ==
  {[channel |-> "app", tags |-> <<tag>>, error |-> "undefined", data |-> data] :
     tag \in {"aaa", "error"}, data \in EventData}

\* server.log([tag]) and request.log([tag]) with a standard severity name
\* that options.tags may replace, a tag it may add, and a severity name it
\* leaves alone
TagEvents ==
  {[channel |-> "app", tags |-> <<tag>>, error |-> "undefined", data |-> NoData] :
     tag \in {"error", "aaa", "warn"}}

\* an event as the host emits it: 'log' or 'request', the request it belongs
\* to, and the number of calls on the logger the listener made for it
Delivery(via, rid, event, new) ==
  [via |-> via, rid |-> rid, event |-> event, made |-> Len(new)]

NoDelivery == Delivery("none", 0, NoEvent, <<>>)

\* the 'request' events the framework emits itself: a handler that threw
\* (internal), a bad accept-encoding header (internal), a closed connection
\* (internal, no error), and the report of a failed request (error channel)
HostEvents ==
  { [channel |-> "internal", tags |-> <<"handler", "error">>, error |-> "boom",
      data |-> NoData],
    [channel |-> "internal", tags |-> <<"accept-encoding", "error">>, error |-> "boom",
      data |-> NoData],
    [channel |-> "internal", tags |-> <<"accept-encoding">>, error |-> "undefined",
      data |-> NoData],
    [channel |-> "internal", tags |-> <<"request", "error", "close">>, error |-> "undefined",
      data |-> NoData],
    [channel |-> "error", tags |-> <<"internal", "error">>, error |-> "boom",
      data |-> NoData] }

----------------------------------------------------------------------------
\* register: configuration

\* the plugin's own copy of the options, with the logEvents default
clone(o) ==
  IF Has(o, "logEvents") THEN o ELSE Merge(o, "logEvents" :> LogEventsAll)

levels(o) == DOMAIN LevelValues(o)

tagToLevels(o) == Merge(levelTags, IF Has(o, "tags") THEN o.tags ELSE EmptyObject)

allTags(o) == IF Has(o, "allTags") THEN o.allTags ELSE "info"

validTags(o) ==
  {key \in DOMAIN tagToLevels(o) : tagToLevels(o)[key] \notin levels(o)} = {}

registerThrows_tagsOnly(o) == ~validTags(o)

\* the condition of the throw of 'invalid tag levels'
registerThrows(o) == ~validTags(o) \/ allTags(o) \notin levels(o)

tagToLevelValue(o) ==
  [tag \in DOMAIN tagToLevels(o) |-> LevelValues(o)[tagToLevels(o)[tag]]]

ignoreTable(o) == IF Has(o, "ignorePaths") THEN Range(o.ignorePaths) ELSE {}

isEnabledLogEvent(o, name) ==
  clone(o).logEvents.kind = "array" /\ name \in clone(o).logEvents.items

tryAddEvent_always(o, candidates) == candidates

\* tryAddEvent: the names among candidates that get registered
tryAddEvent(o, candidates) == {name \in candidates : isEnabledLogEvent(o, name)}

overlay_reset(table, o) ==
  IF table = [log |-> Star, request |-> Star]
  THEN (IF Has(o, "ignoredEventTags") THEN Merge(table, o.ignoredEventTags) ELSE table)
  ELSE [log |-> Star, request |-> Star]

\* ignoredEventTags = { ...ignoredEventTags, ...options.ignoredEventTags }
overlay(table, o) ==
  IF Has(o, "ignoredEventTags") THEN Merge(table, o.ignoredEventTags) ELSE table

NothingInstalled == [logger |-> FALSE, exts |-> {}, events |-> {}]

Installed_allGated(o) ==
  [logger |-> TRUE,
   exts |-> tryAddEvent(o, {"onRequest", "onPostStart", "onPostStop"}),
   events |-> tryAddEvent(o, {"log", "request", "response"})]

\* what a registration that gets past the validation installs on the server
Installed(o) ==
  [logger |-> TRUE,
   exts |-> {"onRequest"} \cup tryAddEvent(o, {"onPostStart", "onPostStop"}),
   events |-> {"log", "request"} \cup tryAddEvent(o, {"response"})]

----------------------------------------------------------------------------
\* register: the objects it reads and writes at lines 90-125.  An object is a
\* function from its keys to values; a value is a primitive (ref 0) or a
\* reference to the object at an address.

Prim(v) == [ref |-> 0, val |-> v]

Ref(a) == [ref |-> a, val |-> "object"]

\* the addresses of the caller's objects, of register's copies, of process.stdout
CallerOptions == 1
CallerSerializers == 2
CallerTransport == 3
CallerStream == 4
Instance == 5
OwnOptions == 6
OwnSerializers == 7
OwnTransport == 8
Stdout == 9
LevelTags == 10
TagToLevels == 11
PeerTagToLevels == 12

\* a serializer function, and the function the wrappers of stdSerializers return
Ser(fn) == [wrapped |-> FALSE, fn |-> fn]

Wrap(serializer) == [wrapped |-> TRUE, fn |-> serializer.fn]

StdErr == Ser("std.err")
StdReq == Ser("std.req")
StdRes == Ser("std.res")

\* obj[key] = value
Put(h, a, key, value) == [h EXCEPT ![a] = Merge(h[a], key :> value)]

\* a new object at address a
Alloc(h, a, obj) == Merge(h, a :> obj)

\* the objects the caller holds when it calls register with options o
CallerHeap(o) ==
  LET root == [k \in DOMAIN o |->
                 CASE k = "serializers" -> Ref(CallerSerializers)
                   [] k = "transport" -> Ref(CallerTransport)
                   [] k = "stream" -> Ref(CallerStream)
                   [] k = "instance" -> Ref(Instance)
                   [] OTHER -> Prim(o[k])]
      primitives(obj) == [k \in DOMAIN obj |-> Prim(obj[k])]
      nested(k, a) == IF Has(o, k) THEN a :> primitives(o[k]) ELSE EmptyObject
  IN  Merge(Merge(Merge(Merge(Merge(
        CallerOptions :> root,
        nested("serializers", CallerSerializers)),
        nested("transport", CallerTransport)),
        nested("stream", CallerStream)),
        nested("instance", Instance)),
        Merge(Stdout :> EmptyObject, LevelTags :> primitives(levelTags)))

HoekClone_shallow(h) == Alloc(h, OwnOptions, h[CallerOptions])

\* Object.assign(Hoek.clone(options), { stream, instance }): a deep copy
\* that shares the stream and the instance with the caller
HoekClone(h) ==
  LET moved(v) == IF v.ref = CallerSerializers THEN Ref(OwnSerializers)
                  ELSE IF v.ref = CallerTransport THEN Ref(OwnTransport)
                  ELSE v
      root == [k \in DOMAIN h[CallerOptions] |-> moved(h[CallerOptions][k])]
      copy(from, to) == IF from \in DOMAIN h THEN to :> h[from] ELSE EmptyObject
  IN  Merge(Merge(Merge(h, OwnOptions :> root),
                  copy(CallerSerializers, OwnSerializers)),
            copy(CallerTransport, OwnTransport))

mergeSerializers_optionsWin(optionsSerializers, loggerSerializers) ==
  Merge(loggerSerializers, optionsSerializers)

\* Object.assign({}, options.serializers, logger[serializersSym])
mergeSerializers(optionsSerializers, loggerSerializers) ==
  Merge(optionsSerializers, loggerSerializers)

\* lines 110-117: the serializers of the instance after register
instanceSerializers(optionsSerializers, loggerSerializers) ==
  LET overrideDefaultErrorSerializer ==
        "err" \in DOMAIN loggerSerializers /\ loggerSerializers.err = StdErr
      merged == mergeSerializers(optionsSerializers, loggerSerializers)
  IN  IF overrideDefaultErrorSerializer
      THEN Merge(merged, "err" :> optionsSerializers.err)
      ELSE merged

\* lines 90-125 on the objects
loggerObjects(h) ==
  LET h1 == HoekClone(h)
      own == h1[OwnOptions]
      \* options.serializers = options.serializers || {}
      h2 == IF "serializers" \in DOMAIN own THEN h1
            ELSE Put(Alloc(h1, OwnSerializers, EmptyObject),
                     OwnOptions, "serializers", Ref(OwnSerializers))
      sers == h2[OwnOptions].serializers.ref
      given == h2[sers]
      wrapSerializers == IF "wrapSerializers" \in DOMAIN own
                         THEN Truthy(own.wrapSerializers.val) ELSE TRUE
      reqSerializer == IF "req" \in DOMAIN given THEN given.req.val ELSE StdReq
      resSerializer == IF "res" \in DOMAIN given THEN given.res.val ELSE StdRes
      h3 == Put(h2, sers, "err",
                IF "err" \in DOMAIN given THEN given.err ELSE Prim(StdErr))
      h4 == Put(h3, sers, "req",
                Prim(IF wrapSerializers THEN Wrap(reqSerializer) ELSE reqSerializer))
      h5 == Put(h4, sers, "res",
                Prim(IF wrapSerializers THEN Wrap(resSerializer) ELSE resSerializer))
      h6 == IF "logEvents" \in DOMAIN own THEN h5
            ELSE Put(h5, OwnOptions, "logEvents", Prim(LogEventsAll))
  IN  IF "instance" \in DOMAIN own
      THEN LET logger == own.instance.ref
               optionsSerializers == [k \in DOMAIN h6[sers] |-> h6[sers][k].val]
           IN  Put(h6, logger, "serializers",
                   Prim(instanceSerializers(optionsSerializers,
                                            h6[logger].serializers.val)))
      ELSE LET h7 == IF "transport" \in DOMAIN own
                        /\ "caller" \notin DOMAIN h6[own.transport.ref]
                     THEN Put(h6, own.transport.ref, "caller", Prim("caller file"))
                     ELSE h6
           IN  IF "stream" \in DOMAIN own THEN h7
               ELSE Put(h7, OwnOptions, "stream", Ref(Stdout))

assignTags_inPlace(h, to, tags) ==
  LET assigned == Merge(h[LevelTags], [k \in DOMAIN tags |-> Prim(tags[k])])
  IN  Alloc(Alloc(h, LevelTags, assigned), to, assigned)

\* tagToLevels = Object.assign({}, levelTags, options.tags): a new object at
\* address to
assignTags(h, to, tags) ==
  Alloc(h, to, Merge(h[LevelTags], [k \in DOMAIN tags |-> Prim(tags[k])]))

\* options.tags of a registration, {} when it is not passed
tagsOf(o) == IF Has(o, "tags") THEN o.tags ELSE EmptyObject

\* lines 90-128 on the objects
registerObjects(h) ==
  LET h8 == loggerObjects(h)
      own == h8[OwnOptions]
  IN  assignTags(h8, TagToLevels,
                 IF "tags" \in DOMAIN own THEN own.tags.val ELSE EmptyObject)

----------------------------------------------------------------------------
\* register: the closures set up at lines 152-168

messageKey_msg(o) == "msg"

messageKey(o) == IF Has(o, "messageKey") THEN o.messageKey ELSE "msg"

getChildBindings_first(o, rid) ==
  IF Has(o, "getChildBindings")
  THEN CallGetChildBindings(o.getChildBindings, 1)
  ELSE [req |-> "request", requestId |-> "absent", owner |-> 1]

getChildBindings_noReq(o, rid) ==
  IF Has(o, "getChildBindings")
  THEN CallGetChildBindings(o.getChildBindings, rid)
  ELSE [req |-> "absent", requestId |-> "absent", owner |-> rid]

getChildBindings(o, rid) ==
  IF Has(o, "getChildBindings")
  THEN CallGetChildBindings(o.getChildBindings, rid)
  ELSE [req |-> "request", requestId |-> "absent", owner |-> rid]

shouldLogRequestStart_truthy(o, request) ==
  IF Has(o, "logRequestStart") /\ o.logRequestStart # "false" THEN "true" ELSE "false"

shouldLogRequestStart(o, request) ==
  IF Has(o, "logRequestStart") /\ o.logRequestStart \in PredicateFunctions
  THEN CallPredicate(o.logRequestStart, request)
  ELSE IF Has(o, "logRequestStart") /\ o.logRequestStart \in {"true", "false"}
       THEN o.logRequestStart
       ELSE "false"

shouldLogRequestComplete_defaultOff(o, request) ==
  IF Has(o, "logRequestComplete") /\ o.logRequestComplete \in PredicateFunctions
  THEN CallPredicate(o.logRequestComplete, request)
  ELSE IF Has(o, "logRequestComplete") /\ o.logRequestComplete \in {"true", "false"}
       THEN o.logRequestComplete
       ELSE "false"

shouldLogRequestComplete(o, request) ==
  IF Has(o, "logRequestComplete") /\ o.logRequestComplete \in PredicateFunctions
  THEN CallPredicate(o.logRequestComplete, request)
  ELSE IF Has(o, "logRequestComplete") /\ o.logRequestComplete \in {"true", "false"}
       THEN o.logRequestComplete
       ELSE "true"

requestStartMessage(o, request) ==
  IF Has(o, "customRequestStartMessage")
  THEN o.customRequestStartMessage ELSE "request start"

requestCompleteMessage(o, request) ==
  IF Has(o, "customRequestCompleteMessage")
  THEN o.customRequestCompleteMessage ELSE "[response]"

requestErrorMessage_fixed(o, request, error) ==
  IF Has(o, "customRequestErrorMessage")
  THEN o.customRequestErrorMessage ELSE "request error"

requestErrorMessage(o, request, error) ==
  IF Has(o, "customRequestErrorMessage")
  THEN o.customRequestErrorMessage ELSE error

----------------------------------------------------------------------------
\* register: the helper functions at lines 269-354

isCustomTagsLoggingIgnored(event, ignoredTags) ==
  IF ~ignoredTags.star
  THEN \E i \in DOMAIN event.tags : event.tags[i] \in Range(ignoredTags.list)
  ELSE FALSE

ignoreTagsLoop_lastOnly(ignoreTags, routeTags, index) ==
  At(ignoreTags, index - 1) \in Range(routeTags)

\* the loop over ignoreTags, from index = ignoreTags.length down to 0
RECURSIVE ignoreTagsLoop(_, _, _)
ignoreTagsLoop(ignoreTags, routeTags, index) ==
  IF index < 0 THEN FALSE
  ELSE IF At(ignoreTags, index) \in Range(routeTags) THEN TRUE
  ELSE ignoreTagsLoop(ignoreTags, routeTags, index - 1)

isLoggingIgnored_pathsFirst(o, request) ==
  IF Has(o, "ignorePaths") /\ request.path \in ignoreTable(o) THEN TRUE
  ELSE IF Has(o, "ignoreFunc") THEN Truthy(CallIgnoreFunc(o.ignoreFunc, request))
  ELSE IF ~Has(o, "ignoreTags") \/ ~request.hasRouteTags THEN FALSE
  ELSE ignoreTagsLoop(o.ignoreTags, request.routeTags, Len(o.ignoreTags))

isLoggingIgnored(o, request) ==
  IF Has(o, "ignoreFunc") THEN Truthy(CallIgnoreFunc(o.ignoreFunc, request))
  ELSE IF Has(o, "ignorePaths") /\ request.path \in ignoreTable(o) THEN TRUE
  ELSE IF ~Has(o, "ignoreTags") \/ ~request.hasRouteTags THEN FALSE
  ELSE ignoreTagsLoop(o.ignoreTags, request.routeTags, Len(o.ignoreTags))

RECURSIVE highestLoop_firstMatch(_, _, _, _)
highestLoop_firstMatch(tagLevels, tags, i, highest) ==
  IF i > Len(tags) THEN highest
  ELSE LET tag == tags[i]
           level == IF tag \in DOMAIN tagLevels THEN tagLevels[tag] ELSE 0
       IN  highestLoop_firstMatch(tagLevels, tags, i + 1,
                       IF level # 0 /\ highest = 0 THEN level ELSE highest)

\* the loop of logEvent over the event's tags, from tag number i on
RECURSIVE highestLoop(_, _, _, _)
highestLoop(tagLevels, tags, i, highest) ==
  IF i > Len(tags) THEN highest
  ELSE LET tag == tags[i]
           level == IF tag \in DOMAIN tagLevels THEN tagLevels[tag] ELSE 0
       IN  highestLoop(tagLevels, tags, i + 1,
                       IF level # 0 /\ level > highest THEN level ELSE highest)

\* the method of the logger that logEvent calls
logEventLevel(o, tags) ==
  LET highest == highestLoop(tagToLevelValue(o), tags, 1, 0)
  IN  IF highest > 0 THEN LevelLabel(o, highest) ELSE allTags(o)

logObject_tagsLast(o, event) ==
  LET tags == event.tags
      data == event.data
  IN  IF Has(o, "mergeHapiLogData") /\ Truthy(o.mergeHapiLogData)
      THEN Merge(IF data.kind \in {"string", "number"}
                 THEN messageKey(o) :> data.value
                 ELSE data.fields,
                 "tags" :> tags)
      ELSE IF data.kind = "undefined"
           THEN "tags" :> tags
           ELSE Merge("tags" :> tags, "data" :> data)

\* the object logEvent logs
logObject(o, event) ==
  LET tags == event.tags
      data == event.data
  IN  IF Has(o, "mergeHapiLogData") /\ Truthy(o.mergeHapiLogData)
      THEN Merge("tags" :> tags,
                 IF data.kind \in {"string", "number"}
                 THEN messageKey(o) :> data.value
                 ELSE data.fields)
      ELSE IF data.kind = "undefined"
           THEN "tags" :> tags
           ELSE Merge("tags" :> tags, "data" :> data)

logEvent(o, current, rid, event) ==
  IF current = nullLogger THEN <<>>
  ELSE Emit(current,
            [Record("event", rid, logEventLevel(o, event.tags), "undefined",
                    FALSE, "undefined") EXCEPT !.obj = logObject(o, event)])

----------------------------------------------------------------------------
\* The handlers: the logger they leave on the request and the calls they
\* make on the logger

lazyLogger_asIs(o, rid, request) == request.logger

lazyLogger_overNull(o, rid, request) ==
  IF request.logger.kind \in {"absent", "null"}
  THEN Child(getChildBindings(o, rid)) ELSE request.logger

\* request.logger as the 'request' and 'response' listeners use it
lazyLogger(o, rid, request) ==
  IF request.logger.kind = "absent"
  THEN Child(getChildBindings(o, rid)) ELSE request.logger

onRequestLogger(o, rid, request) ==
  IF isLoggingIgnored(o, request) THEN nullLogger
  ELSE Child(getChildBindings(o, rid))

startReqField_never(childBindings) == FALSE

\* req: childBindings.req ? undefined : request
startReqField(childBindings) == ~TruthyBinding(childBindings.req)

onRequestRecords_twice(o, rid, request) ==
  IF isLoggingIgnored(o, request) THEN <<>>
  ELSE IF Truthy(shouldLogRequestStart(o, request))
       THEN LET start == Emit(onRequestLogger(o, rid, request),
                              Record("start", rid, "info", "undefined",
                                     startReqField(getChildBindings(o, rid)),
                                     requestStartMessage(o, request)))
            IN  start \o start
       ELSE <<>>

onRequestRecords(o, rid, request) ==
  IF isLoggingIgnored(o, request) THEN <<>>
  ELSE IF Truthy(shouldLogRequestStart(o, request))
       THEN Emit(onRequestLogger(o, rid, request),
                 Record("start", rid, "info", "undefined",
                        startReqField(getChildBindings(o, rid)),
                        requestStartMessage(o, request)))
       ELSE <<>>

logRecords(o, ignored, event) ==
  IF ~isCustomTagsLoggingIgnored(event, ignored.log)
  THEN IF event.error # "undefined"
       THEN Emit(RootLogger,
                 Record("log-error", 0, "error", event.error, FALSE, "undefined"))
       ELSE logEvent(o, RootLogger, 0, event)
  ELSE <<>>

requestReturnsEarly_allInternal(o, request, event) ==
  event.channel = "internal" \/ isLoggingIgnored(o, request)

requestReturnsEarly_noIgnore(o, request, event) ==
  event.channel = "internal" /\ "accept-encoding" \notin Range(event.tags)

\* the early return of the 'request' listener
requestReturnsEarly(o, request, event) ==
  \/ (event.channel = "internal" /\ "accept-encoding" \notin Range(event.tags))
  \/ isLoggingIgnored(o, request)

requestLogger(o, rid, request, event) ==
  IF requestReturnsEarly(o, request, event) THEN request.logger
  ELSE lazyLogger(o, rid, request)

requestRecords(o, ignored, rid, request, event) ==
  IF requestReturnsEarly(o, request, event) THEN <<>>
  ELSE IF event.error # "undefined" /\ isEnabledLogEvent(o, "request-error")
       THEN Emit(lazyLogger(o, rid, request),
                 Record("request-error", rid, "error", event.error, FALSE,
                        requestErrorMessage(o, request, event.error)))
       ELSE IF event.channel = "app"
                 /\ ~isCustomTagsLoggingIgnored(event, ignored.request)
            THEN logEvent(o, lazyLogger(o, rid, request), rid, event)
            ELSE <<>>

responseLogs(o, request) ==
  ~isLoggingIgnored(o, request) /\ Truthy(shouldLogRequestComplete(o, request))

responseLogger(o, rid, request) ==
  IF responseLogs(o, request) THEN lazyLogger(o, rid, request) ELSE request.logger

responseTime_responded(info) == info.responded - info.received

\* const responseTime = (info.completed !== undefined ? ...) - info.received
responseTime(info) ==
  (IF Has(info, "completed") THEN info.completed ELSE info.responded) - info.received

\* a flag of the options is set to a truthy value
Enabled(o, flag) == Has(o, flag) /\ Truthy(o[flag])

\* key: cond ? value : undefined, as the logger writes it
Field(key, cond, value) ==
  IF cond /\ value # "undefined" THEN key :> value ELSE EmptyObject

completeErr_anyStatus(o, request) ==
  IF Enabled(o, "log4xxResponseErrors") THEN request.response.source ELSE "undefined"

\* the err field of the completion record
completeErr(o, request) ==
  LET statusCode == request.response.statusCode
  IN  IF Enabled(o, "log4xxResponseErrors") /\ (statusCode >= 400 /\ statusCode < 500)
      THEN request.response.source ELSE "undefined"

\* the other fields of the object the 'response' listener logs
completeObject(o, request) ==
  Merge(Merge(Merge(Merge(
    Field("payload", Enabled(o, "logPayload"), request.response.payload),
    Field("queryParams", Enabled(o, "logQueryParams"), "query")),
    Field("pathParams", Enabled(o, "logPathParams"), "params")),
    IF Enabled(o, "logRouteTags") /\ request.hasRouteTags
    THEN "tags" :> request.routeTags ELSE EmptyObject),
    Merge("res" :> "res", "responseTime" :> responseTime(request.response.info)))

responseRecords(o, rid, request) ==
  IF responseLogs(o, request)
  THEN Emit(lazyLogger(o, rid, request),
            [Record("complete", rid, "info", completeErr(o, request), FALSE,
                    requestCompleteMessage(o, request))
               EXCEPT !.obj = completeObject(o, request),
                      !.msgTime = responseTime(request.response.info)])
  ELSE <<>>

\* the user-supplied function passed under this key throws when it is called
Throws(o, key) == Has(o, key) /\ o[key] = "throws"

\* the onRequest extension throws: from isLoggingIgnored (175), from
\* shouldLogRequestStart (183), or from requestStartMessage, which is called
\* for the argument list of request.logger.info (186)
onRequestThrows(o, request) ==
  \/ Throws(o, "ignoreFunc")
  \/ /\ ~isLoggingIgnored(o, request)
     /\ \/ Throws(o, "logRequestStart")
        \/ /\ Truthy(shouldLogRequestStart(o, request))
           /\ Throws(o, "customRequestStartMessage")

\* request.logger when the onRequest extension throws: line 181 has run
\* unless ignoreFunc threw
onRequestLoggerAtThrow(o, rid, request) ==
  IF Throws(o, "ignoreFunc") THEN request.logger
  ELSE Child(getChildBindings(o, rid))

\* the 'request' listener throws: from isLoggingIgnored (207), or from
\* requestErrorMessage, called for the argument list of request.logger.error
requestThrows(o, request, event) ==
  /\ ~(event.channel = "internal" /\ "accept-encoding" \notin Range(event.tags))
  /\ \/ Throws(o, "ignoreFunc")
     \/ /\ ~isLoggingIgnored(o, request)
        /\ event.error # "undefined" /\ isEnabledLogEvent(o, "request-error")
        /\ Throws(o, "customRequestErrorMessage")

requestLoggerAtThrow(o, rid, request) ==
  IF Throws(o, "ignoreFunc") THEN request.logger
  ELSE lazyLogger(o, rid, request)

responseThrows_predicates(o, request) ==
  \/ Throws(o, "ignoreFunc")
  \/ ~isLoggingIgnored(o, request) /\ Throws(o, "logRequestComplete")

\* the 'response' listener throws: from isLoggingIgnored (232), from
\* shouldLogRequestComplete (236), or from requestCompleteMessage, called for
\* the argument list of request.logger.info (256)
responseThrows(o, request) ==
  \/ Throws(o, "ignoreFunc")
  \/ /\ ~isLoggingIgnored(o, request)
     /\ \/ Throws(o, "logRequestComplete")
        \/ /\ Truthy(shouldLogRequestComplete(o, request))
           /\ Throws(o, "customRequestCompleteMessage")

responseLoggerAtThrow(o, rid, request) ==
  IF Throws(o, "ignoreFunc") \/ Throws(o, "logRequestComplete") THEN request.logger
  ELSE lazyLogger(o, rid, request)

\* the request after a handler run that ended with an exception
Thrown(request, handler, logger) ==
  [request EXCEPT !.logger = logger, !.threw = Append(@, handler)]

onPostStartRecords == Emit(RootLogger, Record("started", 0, "info", "undefined", FALSE, "server started"))

onPostStopRecords == Emit(RootLogger, Record("stopped", 0, "info", "undefined", FALSE, "server stopped"))

----------------------------------------------------------------------------
\* The host: register, start, then log calls and requests, then stop.  The
\* handlers never read the server's phase, so serving only between start and
\* stop leaves out no call on the logger, only orders of independent calls.

InitHost(optionsSet, ids, servers) ==
  /\ options \in optionsSet
  /\ regState = "pending"
  /\ server = NothingInstalled
  /\ ignoredEventTags = ignoredEventTagsDefault
  /\ serverPhase = "initialized"
  /\ requests = [r \in ids |-> NewRequest]
  /\ records = <<>>
  /\ lastEvent = NoEvent
  /\ nEvents = 0
  /\ delivered = NoDelivery
  /\ heap = CallerHeap(options)
  /\ peers = {}
  /\ twin = [inputs |-> <<>>, servers |-> servers]

InitOf(optionsSet, ids) == InitHost(optionsSet, ids, <<>>)

InitWith(optionsSet) == InitOf(optionsSet, ReqIds)

Init == InitWith(OptionsSet)

InitLevels == InitWith(LevelOptions)

InitIgnore == InitWith(IgnoreOptions)

\* await server.register({ plugin, options })
Register ==
  /\ regState = "pending"
  /\ IF registerThrows(options)
     THEN /\ regState' = "failed"
          /\ UNCHANGED <<server, ignoredEventTags>>
     ELSE /\ regState' = "registered"
          /\ server' = Installed(options)
          /\ ignoredEventTags' = overlay(ignoredEventTags, options)
  /\ heap' = registerObjects(heap)
  /\ UNCHANGED <<options, serverPhase, requests, records, lastEvent, nEvents,
                 delivered, peers, twin>>

\* another server of the same process registers the plugin with options of
\* its own: its register runs on the same module-level table
RegisterOther(other) ==
  /\ other \notin peers
  /\ ~registerThrows(other)
  /\ peers' = peers \cup {other}
  /\ ignoredEventTags' = overlay(ignoredEventTags, other)
  /\ heap' = assignTags(heap, PeerTagToLevels, tagsOf(other))
  /\ UNCHANGED <<options, regState, server, serverPhase, requests, records,
                 lastEvent, nEvents, delivered, twin>>

\* the logger is called with the records of one handler run
Log(new, event) ==
  /\ records' = records \o new
  /\ lastEvent' = IF new = <<>> THEN lastEvent ELSE event

\* await server.start(): the host runs the onPostStart extensions
ServerStart ==
  /\ regState = "registered"
  /\ serverPhase = "initialized"
  /\ serverPhase' = "started"
  /\ Log(IF "onPostStart" \in server.exts THEN onPostStartRecords ELSE <<>>, NoEvent)
  /\ UNCHANGED <<options, regState, server, ignoredEventTags, requests,
                 nEvents, delivered, heap, peers, twin>>

\* await server.stop(): the host waits for the requests in flight and runs the
\* onPostStop extensions
ServerStop ==
  /\ regState = "registered"
  /\ serverPhase = "started"
  /\ \A rid \in DOMAIN requests : requests[rid].stage # "active"
  /\ serverPhase' = "stopped"
  /\ Log(IF "onPostStop" \in server.exts THEN onPostStopRecords ELSE <<>>, NoEvent)
  /\ UNCHANGED <<options, regState, server, ignoredEventTags, requests,
                 nEvents, delivered, heap, peers, twin>>

\* server.log(tags, data): the host emits a 'log' event
ServerLogOf(Events) ==
  /\ regState = "registered"
  /\ serverPhase = "started"
  /\ nEvents < MaxEvents
  /\ \E event \in Events :
       LET new == IF "log" \in server.events
                  THEN logRecords(options, ignoredEventTags, event) ELSE <<>>
       IN  /\ Log(new, event)
           /\ delivered' = Delivery("log", 0, event, new)
  /\ nEvents' = nEvents + 1
  /\ UNCHANGED <<options, regState, server, ignoredEventTags, serverPhase,
                 requests, heap, peers, twin>>

ServerLog == ServerLogOf(TagListEvents)

\* the started server receives a request and runs the onRequest extensions
OnRequestOf(rid, Shapes) ==
  /\ regState = "registered"
  /\ serverPhase = "started"
  /\ requests[rid].stage = "new"
  /\ \E shape \in Shapes :
       LET request == [requests[rid] EXCEPT !.path = shape.path,
                                            !.hasRouteTags = shape.hasRouteTags,
                                            !.routeTags = shape.routeTags,
                                            !.stage = "active"]
       IN  IF "onRequest" \in server.exts
           THEN IF onRequestThrows(options, request)
                THEN /\ requests' = [requests EXCEPT ![rid] =
                          Thrown(request, "onRequest",
                                 onRequestLoggerAtThrow(options, rid, request))]
                     /\ Log(<<>>, NoEvent)
                ELSE /\ requests' = [requests EXCEPT ![rid] =
                          [request EXCEPT !.logger = onRequestLogger(options, rid, request)]]
                     /\ Log(onRequestRecords(options, rid, request), NoEvent)
           ELSE /\ requests' = [requests EXCEPT ![rid] = request]
                /\ Log(<<>>, NoEvent)
  /\ UNCHANGED <<options, regState, server, ignoredEventTags, serverPhase,
                 nEvents, delivered, heap, peers, twin>>

\* the host emits a 'request' event: request.log on the app channel, an
\* internal event, or the report of a failed request on the error channel
RequestEventOf(rid, Events) ==
  /\ requests[rid].stage = "active"
  /\ nEvents < MaxEvents
  /\ \E event \in Events :
       LET request == requests[rid]
           counted == [request EXCEPT
                         !.hostErrors = @ + (IF event.channel = "error" THEN 1 ELSE 0),
                         !.otherErrors = @ + (IF event.channel # "error"
                                                  /\ event.error # "undefined"
                                                  /\ ~(event.channel = "internal" /\
                                                       "accept-encoding" \notin Range(event.tags))
                                              THEN 1 ELSE 0)]
       IN  IF "request" \in server.events
           THEN IF requestThrows(options, request, event)
                THEN /\ requests' = [requests EXCEPT ![rid] =
                          Thrown(counted, "request",
                                 requestLoggerAtThrow(options, rid, request))]
                     /\ Log(<<>>, NoEvent)
                     /\ delivered' = Delivery("request", rid, event, <<>>)
                ELSE LET new == requestRecords(options, ignoredEventTags, rid, request, event)
                     IN  /\ requests' = [requests EXCEPT ![rid] =
                               [counted EXCEPT
                                  !.logger = requestLogger(options, rid, request, event)]]
                         /\ Log(new, event)
                         /\ delivered' = Delivery("request", rid, event, new)
           ELSE /\ requests' = [requests EXCEPT ![rid] = counted]
                /\ Log(<<>>, NoEvent)
                /\ delivered' = Delivery("request", rid, event, <<>>)
  /\ nEvents' = nEvents + 1
  /\ UNCHANGED <<options, regState, server, ignoredEventTags, serverPhase,
                 heap, peers, twin>>

OnRequest(rid) == OnRequestOf(rid, RequestShapes)

RequestEvent(rid) == RequestEventOf(rid, PlainTaggedEvents \cup HostEvents)

\* application code removes the logger: request.logger = undefined
RemoveLogger(rid) ==
  /\ requests[rid].stage = "active"
  /\ requests[rid].logger.kind # "absent"
  /\ requests' = [requests EXCEPT ![rid].logger = AbsentLogger,
                                  ![rid].removed = TRUE]
  /\ UNCHANGED <<options, regState, server, ignoredEventTags, serverPhase,
                 records, lastEvent, nEvents, delivered, heap, peers, twin>>

\* between two hooks the path and the route of the request change: the
\* application calls request.setUrl, the host matches the route
SetUrl(rid) ==
  /\ requests[rid].stage = "active"
  /\ \E shape \in RequestShapes :
       /\ shape.path # requests[rid].path
       /\ requests' = [requests EXCEPT ![rid].path = shape.path,
                                       ![rid].hasRouteTags = shape.hasRouteTags,
                                       ![rid].routeTags = shape.routeTags]
  /\ UNCHANGED <<options, regState, server, ignoredEventTags, serverPhase,
                 records, lastEvent, nEvents, delivered, heap, peers, twin>>

\* the host emits the 'response' event of a request
ResponseOf(rid, Responses) ==
  /\ requests[rid].stage = "active"
  /\ \E response \in Responses :
       LET request == [requests[rid] EXCEPT !.response = response]
       IN  IF "response" \in server.events
           THEN IF responseThrows(options, request)
                THEN /\ requests' = [requests EXCEPT ![rid] =
                          Thrown([request EXCEPT !.stage = "done"], "response",
                                 responseLoggerAtThrow(options, rid, request))]
                     /\ Log(<<>>, NoEvent)
                ELSE /\ requests' = [requests EXCEPT ![rid] =
                          [request EXCEPT !.stage = "done",
                                          !.logger = responseLogger(options, rid, request)]]
                     /\ Log(responseRecords(options, rid, request), NoEvent)
           ELSE /\ requests' = [requests EXCEPT ![rid] =
                     [request EXCEPT !.stage = "done"]]
                /\ Log(<<>>, NoEvent)
  /\ UNCHANGED <<options, regState, server, ignoredEventTags, serverPhase,
                 nEvents, delivered, heap, peers, twin>>

Response(rid) == ResponseOf(rid, {PlainResponse})

Next ==
  \/ Register
  \/ ServerStart
  \/ ServerStop
  \/ ServerLog
  \/ \E rid \in ReqIds : OnRequest(rid)
  \/ \E rid \in ReqIds : RequestEvent(rid)
  \/ \E rid \in ReqIds : RemoveLogger(rid)
  \/ \E rid \in ReqIds : Response(rid)

\* the same host, delivering the events and responses of the given sets
NextOf(LogEvents, RequestEvents, Responses) ==
  \/ Register
  \/ ServerStart
  \/ ServerStop
  \/ ServerLogOf(LogEvents)
  \/ \E rid \in DOMAIN requests : OnRequest(rid)
  \/ \E rid \in DOMAIN requests : RequestEventOf(rid, RequestEvents)
  \/ \E rid \in DOMAIN requests : RemoveLogger(rid)
  \/ \E rid \in DOMAIN requests : ResponseOf(rid, Responses)

\* the application logs with the tags aaa and bbb
NextTagged == NextOf(TaggedEvents, TaggedEvents \cup HostEvents, {PlainResponse})

Spec == Init /\ [][NextTagged]_vars

\* the same plugin, registered with logEvents lists
InitLogEvents == InitWith(LogEventsListOptions)

SpecLogEvents == InitLogEvents /\ [][NextTagged]_vars

\* the same plugin, registered with the payload options; the application logs
\* strings, numbers and objects
InitPayload == InitWith(PayloadOptions)

NextPayload == NextOf(DataEvents, DataEvents, {PlainResponse})

SpecPayload == InitPayload /\ [][NextPayload]_vars

\* the same plugin, registered with the request start options and serving
\* two requests
InitStart == InitOf(StartOptions, TwoReqIds)

NextStart == NextOf(OneEvent, OneEvent, {PlainResponse})

SpecStart == InitStart /\ [][NextStart]_vars

\* the same plugin, registered with the request completion options
InitComplete == InitWith(CompleteOptions)

NextComplete == NextOf(OneEvent, OneEvent \cup HostEvents, {PlainResponse})

SpecComplete == InitComplete /\ [][NextComplete]_vars

\* the same plugin, registered with the completion record options; the host
\* reports responses of several status codes and timings
InitResponse == InitWith(ResponseOptions)

NextResponse == NextOf(OneEvent, OneEvent, HostResponses)

SpecResponse == InitResponse /\ [][NextResponse]_vars

\* the same plugin, registered with options that hold objects
InitObjects == InitWith(NestedOptions \cup InstanceOptions)

NextObjects == NextOf(OneEvent, OneEvent, {PlainResponse})

SpecObjects == InitObjects /\ [][NextObjects]_vars

\* the same plugin, registered with ignoredEventTags, in a process where
\* other servers register it too; the application logs without errors
InitShared == InitWith(EventTagOptions)

NextShared ==
  \/ NextOf(PlainTaggedEvents, PlainTaggedEvents, {PlainResponse})
  \/ \E other \in EventTagOptions : RegisterOther(other)

SpecShared == InitShared /\ [][NextShared]_vars

\* the same plugin, registered with options.tags, in a process where other
\* servers register it with tags of their own
InitTags == InitWith(TagOptions)

NextTags ==
  \/ NextOf(TagEvents, TagEvents, {PlainResponse})
  \/ \E other \in TagOptions : RegisterOther(other)

SpecTags == InitTags /\ [][NextTags]_vars

\* Two servers of one process register the plugin with the same options,
\* each with a logger of its own, and each is run through the same script
\* of lifecycle events.  The module-level table is the one they share.

\* a server before register: what the plugin installed on it, its request
\* objects, the calls on its logger, and per event of the script handled so
\* far the levels of the calls made for it
TwinServer ==
  [regState |-> "pending", server |-> NothingInstalled,
   requests |-> [r \in ReqIds |-> NewRequest], records |-> <<>>, outcomes |-> <<>>]

\* one event of the script
Input(op, rid, event, shape) == [op |-> op, rid |-> rid, event |-> event, shape |-> shape]

NoShape == [path |-> "", hasRouteTags |-> FALSE, routeTags |-> <<>>]

\* the events of the script: what the application logs and what the host reports
TwinEvents ==
  OneEvent
    \cup {[channel |-> "app", tags |-> <<"bbb">>, error |-> "boom", data |-> NoData],
          [channel |-> "error", tags |-> <<"internal", "error">>, error |-> "boom",
           data |-> NoData]}

Ops(script, op, rid) == {i \in DOMAIN script : script[i].op = op /\ script[i].rid = rid}

\* the events that may come next in a script: start, then server.log calls
\* and the requests' onRequest, 'request' events and 'response', then stop
NextInputs(script) ==
  LET started == Ops(script, "start", 0) # {}
      stopped == Ops(script, "stop", 0) # {}
      received(rid) == Ops(script, "onRequest", rid) # {}
      responded(rid) == Ops(script, "response", rid) # {}
      active(rid) == received(rid) /\ ~responded(rid)
      nLogged == Cardinality({i \in DOMAIN script : script[i].op \in {"log", "request"}})
      serving == started /\ ~stopped
      when(cond, S) == IF cond THEN S ELSE {}
  IN  when(~started, {Input("start", 0, NoEvent, NoShape)})
        \cup when(serving /\ \A rid \in ReqIds : ~active(rid),
                  {Input("stop", 0, NoEvent, NoShape)})
        \cup when(serving /\ nLogged < MaxEvents,
                  {Input("log", 0, event, NoShape) : event \in OneEvent})
        \cup {Input("onRequest", rid, NoEvent, shape) :
                rid \in {r \in ReqIds : serving /\ ~received(r)},
                shape \in RequestShapes}
        \cup {Input("request", rid, event, NoShape) :
                rid \in {r \in ReqIds : active(r) /\ nLogged < MaxEvents},
                event \in TwinEvents}
        \cup {Input("response", rid, NoEvent, NoShape) : rid \in {r \in ReqIds : active(r)}}

\* a server handles one event of the script: the handler the plugin
\* installed for it runs on the server's own request objects and logger
serve(o, ignored, s, input) ==
  LET rid == input.rid
      done(requestsNow, new) ==
        [s EXCEPT !.requests = requestsNow,
                  !.records = @ \o new,
                  !.outcomes = Append(@, [i \in DOMAIN new |-> new[i].level])]
      withLogger(request, logger) ==
        [s.requests EXCEPT ![rid] = [request EXCEPT !.logger = logger]]
  IN  CASE input.op = "start" ->
             done(s.requests,
                  IF "onPostStart" \in s.server.exts THEN onPostStartRecords ELSE <<>>)
        [] input.op = "stop" ->
             done(s.requests,
                  IF "onPostStop" \in s.server.exts THEN onPostStopRecords ELSE <<>>)
        [] input.op = "log" ->
             done(s.requests,
                  IF "log" \in s.server.events
                  THEN logRecords(o, ignored, input.event) ELSE <<>>)
        [] input.op = "onRequest" ->
             LET request == [s.requests[rid] EXCEPT
                               !.path = input.shape.path,
                               !.hasRouteTags = input.shape.hasRouteTags,
                               !.routeTags = input.shape.routeTags,
                               !.stage = "active"]
             IN  IF "onRequest" \in s.server.exts
                 THEN done(withLogger(request, onRequestLogger(o, rid, request)),
                           onRequestRecords(o, rid, request))
                 ELSE done([s.requests EXCEPT ![rid] = request], <<>>)
        [] input.op = "request" ->
             LET request == s.requests[rid]
             IN  IF "request" \in s.server.events
                 THEN done(withLogger(request, requestLogger(o, rid, request, input.event)),
                           requestRecords(o, ignored, rid, request, input.event))
                 ELSE done(s.requests, <<>>)
        [] input.op = "response" ->
             LET request == [s.requests[rid] EXCEPT !.stage = "done"]
             IN  IF "response" \in s.server.events
                 THEN done(withLogger(request, responseLogger(o, rid, request)),
                           responseRecords(o, rid, request))
                 ELSE done([s.requests EXCEPT ![rid] = request], <<>>)

\* await server.register({ plugin, options }) on one of the two servers
TwinRegister(k) ==
  /\ twin.servers[k].regState = "pending"
  /\ ~registerThrows(options)
  /\ twin' = [twin EXCEPT !.servers[k].regState = "registered",
                          !.servers[k].server = Installed(options)]
  /\ ignoredEventTags' = overlay(ignoredEventTags, options)
  /\ UNCHANGED <<options, regState, server, serverPhase, requests, records,
                 lastEvent, nEvents, delivered, heap, peers>>

\* the script gets its next event
Inject ==
  /\ \E input \in NextInputs(twin.inputs) :
       twin' = [twin EXCEPT !.inputs = Append(@, input)]
  /\ UNCHANGED <<options, regState, server, ignoredEventTags, serverPhase,
                 requests, records, lastEvent, nEvents, delivered, heap, peers>>

\* a registered server is given the next event of the script it has not
\* handled yet
Handle(k) ==
  /\ twin.servers[k].regState = "registered"
  /\ Len(twin.servers[k].outcomes) < Len(twin.inputs)
  /\ twin' = [twin EXCEPT !.servers[k] =
                serve(options, ignoredEventTags, @,
                      twin.inputs[Len(twin.servers[k].outcomes) + 1])]
  /\ UNCHANGED <<options, regState, server, ignoredEventTags, serverPhase,
                 requests, records, lastEvent, nEvents, delivered, heap, peers>>

InitTwin == InitHost(TwinOptions, ReqIds, <<TwinServer, TwinServer>>)

NextTwin ==
  \/ \E k \in {1, 2} : TwinRegister(k)
  \/ Inject
  \/ \E k \in {1, 2} : Handle(k)

SpecTwin == InitTwin /\ [][NextTwin]_vars

\* the same plugin, serving two requests at the same time under options
\* that treat requests differently
InitConcurrent == InitOf(ConcurrentOptions, TwoReqIds)

NextConcurrent == NextOf(OneEvent, OneEvent, {PlainResponse})

SpecConcurrent == InitConcurrent /\ [][NextConcurrent]_vars

\* the same plugin, registered with user-supplied functions that throw
InitThrow == InitWith(ThrowOptions)

NextThrow ==
  NextOf(OneEvent,
         OneEvent \cup {event \in HostEvents : event.channel = "error"},
         {PlainResponse})

SpecThrow == InitThrow /\ [][NextThrow]_vars

\* the same plugin, registered with the ignore options, serving requests
\* whose path and route change while they are in flight
InitReroute == InitWith(RerouteOptions)

NextReroute ==
  \/ NextOf(OneEvent,
            OneEvent \cup {event \in HostEvents : event.error # "undefined"},
            {PlainResponse})
  \/ \E rid \in DOMAIN requests : SetUrl(rid)

SpecReroute == InitReroute /\ [][NextReroute]_vars

\* the same plugin, registered with logEvents that name no event
InitQuiet == InitWith(QuietOptions)

NextQuiet ==
  NextOf(PlainTaggedEvents, PlainTaggedEvents \cup HostEvents, {PlainResponse})

SpecQuiet == InitQuiet /\ [][NextQuiet]_vars

\* the same plugin, registered with ignoreTags, serving requests to routes
\* with and without tags
InitIgnoreTags == InitWith(IgnoreTagsOptions)

NextIgnoreTags ==
  \/ Register
  \/ ServerStart
  \/ ServerStop
  \/ ServerLogOf(OneEvent)
  \/ \E rid \in DOMAIN requests : OnRequestOf(rid, TaggedShapes)
  \/ \E rid \in DOMAIN requests : RequestEventOf(rid, OneEvent)
  \/ \E rid \in DOMAIN requests : RemoveLogger(rid)
  \/ \E rid \in DOMAIN requests : ResponseOf(rid, {PlainResponse})

SpecIgnoreTags == InitIgnoreTags /\ [][NextIgnoreTags]_vars

\* the same plugin, registered with the tag and level options
SpecLevels == InitLevels /\ [][Next]_vars

\* the same plugin, registered with the ignore options
SpecIgnore == InitIgnore /\ [][NextTagged]_vars

----------------------------------------------------------------------------
\* Properties

\* positions in the log of the records of one kind made for one request
Indices(kind, rid) ==
  {i \in DOMAIN records : records[i].kind = kind /\ records[i].rid = rid}

LastRecord == records[Len(records)]

\* the tag-to-level map of the registration: the defaults plus options.tags
TagMap(o) ==
  [t \in DOMAIN levelTags \cup (IF Has(o, "tags") THEN DOMAIN o.tags ELSE {}) |->
     IF Has(o, "tags") /\ t \in DOMAIN o.tags THEN o.tags[t] ELSE levelTags[t]]

\* the level names and ranks of the logger
Rank(o, level) ==
  IF Has(o, "customLevels") /\ level \in DOMAIN o.customLevels
  THEN o.customLevels[level] ELSE PinoLevels[level]

LevelNames(o) ==
  DOMAIN PinoLevels \cup (IF Has(o, "customLevels") THEN DOMAIN o.customLevels ELSE {})

CatchAll(o) == IF Has(o, "allTags") THEN o.allTags ELSE "info"

\* the levels the map assigns to the tags of a tag list
LevelsOfTags(o, tags) == {TagMap(o)[t] : t \in Range(tags) \cap DOMAIN TagMap(o)}

IsHighest(o, level, tags) ==
  /\ level \in LevelsOfTags(o, tags)
  /\ \A other \in LevelsOfTags(o, tags) : Rank(o, other) <= Rank(o, level)

\* C1: a non-error event routed by logEvent is logged at the level of highest
\* numeric rank among the levels the tag map gives to its tags, and at the
\* allTags level (default info) when the map knows none of its tags.
C1_HighestSeverity ==
  (records # <<>> /\ LastRecord.kind = "event") =>
     IF LevelsOfTags(options, lastEvent.tags) = {}
     THEN LastRecord.level = CatchAll(options)
     ELSE IsHighest(options, LastRecord.level, lastEvent.tags)

\* a request.log event whose first tag maps to a lower level than its second
C1_Witness ==
  /\ records # <<>>
  /\ LastRecord.kind = "event"
  /\ LastRecord.rid # 0
  /\ Len(lastEvent.tags) = 2
  /\ Cardinality(LevelsOfTags(options, lastEvent.tags)) = 2
  /\ TagMap(options)[lastEvent.tags[2]] = LastRecord.level

\* the configuration names a level the logger does not have
InvalidTagLevels(o) ==
  \/ \E t \in DOMAIN TagMap(o) : TagMap(o)[t] \notin LevelNames(o)
  \/ CatchAll(o) \notin LevelNames(o)

\* C2: register fails when a tag of the merged map or allTags names a level
\* the logger does not have, and a failed register has installed nothing:
\* no server.logger, no extension, no listener.
C2_InvalidTagLevelsFail ==
  (regState # "pending") =>
     /\ InvalidTagLevels(options) => regState = "failed"
     /\ regState = "failed" =>
          (~server.logger /\ server.exts = {} /\ server.events = {})

\* register failed because of allTags alone
C2_Witness ==
  /\ regState = "failed"
  /\ \A t \in DOMAIN TagMap(options) : TagMap(options)[t] \in LevelNames(options)
  /\ server = NothingInstalled

\* the ignore decision for a request: the predicate when there is one,
\* otherwise the path list and the route tags
IgnoreDecision(o, request) ==
  IF Has(o, "ignoreFunc")
  THEN Truthy(CallIgnoreFunc(o.ignoreFunc, request))
  ELSE \/ (Has(o, "ignorePaths") /\ request.path \in Range(o.ignorePaths))
       \/ (Has(o, "ignoreTags") /\ request.hasRouteTags
             /\ Range(o.ignoreTags) \cap Range(request.routeTags) # {})

C4_IgnoreFuncAlone ==
  \A rid \in ReqIds :
    (Has(options, "ignoreFunc") /\ requests[rid].stage # "new") =>
       /\ Indices("start", rid) # {}
            <=> ~Truthy(CallIgnoreFunc(options.ignoreFunc, requests[rid]))
       /\ requests[rid].stage = "done" =>
            (Indices("complete", rid) # {}
               <=> ~Truthy(CallIgnoreFunc(options.ignoreFunc, requests[rid])))

\* a request that ignorePaths or ignoreTags match is logged because
\* ignoreFunc returned a falsy value
C4_Witness ==
  \E rid \in ReqIds :
    /\ Has(options, "ignoreFunc")
    /\ requests[rid].stage = "done"
    /\ \/ (Has(options, "ignorePaths") /\ requests[rid].path \in Range(options.ignorePaths))
       \/ (Has(options, "ignoreTags")
             /\ Range(options.ignoreTags) \cap Range(requests[rid].routeTags) # {})
    /\ Indices("start", rid) # {}
    /\ Indices("complete", rid) # {}

\* C5: a request gets at most one start record and at most one completion
\* record, and the start record comes first.
C5_StartThenComplete ==
  \A rid \in ReqIds :
    /\ Cardinality(Indices("start", rid)) <= 1
    /\ Cardinality(Indices("complete", rid)) <= 1
    /\ \A i \in Indices("start", rid), j \in Indices("complete", rid) : i < j

\* a request with a start record, a request event record and a completion record
C5_Witness ==
  \E rid \in ReqIds :
    /\ Indices("start", rid) # {}
    /\ Indices("complete", rid) # {}
    /\ Indices("event", rid) # {}

BothEmitted(rid) == Indices("start", rid) # {} /\ Indices("complete", rid) # {}

DefaultBindings == ~Has(options, "getChildBindings")

\* C6, as stated: with the default bindings, when a request has a start and
\* a completion record, req is in exactly one of the two.
C6_ReqInExactlyOne ==
  \A rid \in ReqIds :
    (DefaultBindings /\ BothEmitted(rid)) =>
       \A i \in Indices("start", rid), j \in Indices("complete", rid) :
         (ReqKeys(records[i]) >= 1) # (ReqKeys(records[j]) >= 1)

\* C6, amended: with the default bindings, when a request has a start and a
\* completion record, req is in both of them (it comes with the bindings of
\* the request's child logger).
C6_ReqInBoth ==
  \A rid \in ReqIds :
    (DefaultBindings /\ BothEmitted(rid)) =>
       \A i \in Indices("start", rid), j \in Indices("complete", rid) :
         ReqKeys(records[i]) >= 1 /\ ReqKeys(records[j]) >= 1

\* a request logged at start and at completion under the default bindings
C6_Witness ==
  \E rid \in ReqIds : DefaultBindings /\ BothEmitted(rid)

\* C7: no start or completion record holds the req key twice: the start
\* record adds req itself only when the bindings hold no req, the completion
\* record never adds it, and under the default bindings each holds it once.
C7_NoDuplicateReq ==
  \A i \in DOMAIN records :
    /\ records[i].kind = "start" =>
         /\ ReqKeys(records[i]) <= 1
         /\ records[i].reqField => records[i].bindings.req = "absent"
    /\ records[i].kind = "complete" =>
         /\ ReqKeys(records[i]) <= 1
         /\ ~records[i].reqField
    /\ (records[i].kind \in {"start", "complete"} /\ DefaultBindings) =>
         ReqKeys(records[i]) = 1

BindingsWithoutReq ==
  Has(options, "getChildBindings") /\ options.getChildBindings = "requestId"

\* C8: when getChildBindings returns bindings without req, the start record
\* holds req, the completion record does not, and both hold the custom
\* bindings.
C8_ReqOnlyInStart ==
  BindingsWithoutReq =>
    \A i \in DOMAIN records :
      /\ records[i].kind = "start" =>
           (ReqKeys(records[i]) = 1 /\ records[i].bindings.requestId = "request1234")
      /\ records[i].kind = "complete" =>
           (ReqKeys(records[i]) = 0 /\ records[i].bindings.requestId = "request1234")

\* a request logged at start and at completion under bindings without req
C8_Witness ==
  \E rid \in ReqIds : BindingsWithoutReq /\ BothEmitted(rid)

\* C9: a server.log or request.log event that carries an error is logged at
\* error level with the error as err, whatever its tags.
C9_ErrorsAtErrorLevel ==
  (records # <<>> /\ lastEvent.channel = "app" /\ lastEvent.error # "undefined") =>
     (LastRecord.level = "error" /\ LastRecord.err = lastEvent.error)

\* the records made for a request that carry an error
ErrorRecords(rid) ==
  {i \in DOMAIN records : records[i].rid = rid /\ records[i].err # "undefined"}

EnabledNames(o) ==
  IF ~Has(o, "logEvents") THEN {"onPostStart", "onPostStop", "response", "request-error"}
  ELSE IF o.logEvents.kind = "array" THEN o.logEvents.items ELSE {}

RecordsOfKind(kind) == {i \in DOMAIN records : records[i].kind = kind}

\* C11: a server-started, server-stopped, completion or request-error record
\* is made only when its name is in options.logEvents (all four by default,
\* none with false or null), and when the name is enabled the server start
\* and the server stop each make exactly one info record with the message
\* 'server started' / 'server stopped'.
C11_LogEventsGate ==
  /\ \A i \in DOMAIN records :
       /\ records[i].kind = "started" => "onPostStart" \in EnabledNames(options)
       /\ records[i].kind = "stopped" => "onPostStop" \in EnabledNames(options)
       /\ records[i].kind = "complete" => "response" \in EnabledNames(options)
       /\ records[i].kind = "request-error" => "request-error" \in EnabledNames(options)
  /\ ("onPostStart" \in EnabledNames(options) /\ serverPhase # "initialized") =>
       /\ Cardinality(RecordsOfKind("started")) = 1
       /\ \A i \in RecordsOfKind("started") :
            records[i].level = "info" /\ records[i].msg = "server started"
  /\ ("onPostStop" \in EnabledNames(options) /\ serverPhase = "stopped") =>
       /\ Cardinality(RecordsOfKind("stopped")) = 1
       /\ \A i \in RecordsOfKind("stopped") :
            records[i].level = "info" /\ records[i].msg = "server stopped"
  /\ serverPhase = "initialized" => RecordsOfKind("started") = {}
  /\ serverPhase # "stopped" => RecordsOfKind("stopped") = {}

\* a server registered with logEvents: ['onPostStop', 'request-error'] has
\* served a failed request and stopped
C11_Witness ==
  /\ Has(options, "logEvents")
  /\ EnabledNames(options) = {"onPostStop", "request-error"}
  /\ serverPhase = "stopped"
  /\ RecordsOfKind("request-error") # {}
  /\ RecordsOfKind("stopped") # {}
  /\ \E rid \in DOMAIN requests : requests[rid].stage = "done"

\* the ignoredEventTags entry a registration configures for a channel
OwnEntry(o, channel) ==
  IF Has(o, "ignoredEventTags") /\ channel \in DOMAIN o.ignoredEventTags
  THEN o.ignoredEventTags[channel] ELSE Star

\* the tags include a tag the entry lists
Listed(entry, tags) == ~entry.star /\ Range(tags) \cap Range(entry.list) # {}

\* C12: a server.log / request.log event whose tags include a tag listed in
\* the ignoredEventTags entry of its channel makes no record, with or without
\* an error; with the '*' entry of a channel (the default, also when tags are
\* listed for the other channel only) every event of the channel makes one.
C12_IgnoredEventTags ==
  (delivered.via # "none" /\ delivered.event.channel = "app") =>
     LET entry == OwnEntry(options, delivered.via)
     IN  /\ Listed(entry, delivered.event.tags) => delivered.made = 0
         /\ entry.star => delivered.made = 1

\* the latest call on the logger was made by logEvent for an event without
\* an error
LoggedPlainEvent ==
  records # <<>> /\ LastRecord.kind = "event" /\ lastEvent.error = "undefined"

MergeEnabled == Has(options, "mergeHapiLogData") /\ options.mergeHapiLogData = "true"

\* the fields data contributes in merge mode: a string or a number under the
\* message key, an object's own fields
DataFields(o, data) ==
  IF data.kind \in {"string", "number"}
  THEN (IF Has(o, "messageKey") THEN o.messageKey ELSE "msg") :> data.value
  ELSE data.fields

\* the payload without merge mode: tags and data
KeepsData(obj, event) ==
  /\ obj.tags = event.tags
  /\ IF event.data.kind = "undefined"
     THEN DOMAIN obj = {"tags"}
     ELSE DOMAIN obj = {"tags", "data"} /\ obj.data = event.data

\* C13, as stated: without mergeHapiLogData the payload of a non-error event
\* is {tags, data}; with it the payload is the event's tags plus the fields
\* of data at top level, a string or number first wrapped under messageKey
\* (default 'msg').
C13_PayloadHasEventTags ==
  LoggedPlainEvent =>
    IF MergeEnabled
    THEN /\ DOMAIN LastRecord.obj = {"tags"} \cup DOMAIN DataFields(options, lastEvent.data)
         /\ LastRecord.obj.tags = lastEvent.tags
         /\ \A k \in DOMAIN DataFields(options, lastEvent.data) :
              LastRecord.obj[k] = DataFields(options, lastEvent.data)[k]
    ELSE KeepsData(LastRecord.obj, lastEvent)

\* C13, amended: as stated, except that in merge mode a field of data named
\* tags takes the place of the event's tags in the payload.
C13_PayloadDataOverTags ==
  LoggedPlainEvent =>
    IF MergeEnabled
    THEN /\ DOMAIN LastRecord.obj = {"tags"} \cup DOMAIN DataFields(options, lastEvent.data)
         /\ "tags" \notin DOMAIN DataFields(options, lastEvent.data) =>
              LastRecord.obj.tags = lastEvent.tags
         /\ \A k \in DOMAIN DataFields(options, lastEvent.data) :
              LastRecord.obj[k] = DataFields(options, lastEvent.data)[k]
    ELSE KeepsData(LastRecord.obj, lastEvent)

\* request.log(['aaa'], 'hello world') was logged in merge mode under the
\* message key 'message'
C13_Witness ==
  /\ LoggedPlainEvent
  /\ MergeEnabled
  /\ Has(options, "messageKey")
  /\ LastRecord.rid # 0
  /\ lastEvent.data.kind = "string"
  /\ LastRecord.obj["message"] = "hello world"

\* options.logRequestStart asks for a start record for this request
StartWanted(o, request) ==
  /\ Has(o, "logRequestStart")
  /\ \/ o.logRequestStart = "true"
     \/ /\ o.logRequestStart \in PredicateFunctions
        /\ Truthy(CallPredicate(o.logRequestStart, request))

StartMessage(o) ==
  IF Has(o, "customRequestStartMessage")
  THEN o.customRequestStartMessage ELSE "request start"

\* C14: a request that has passed onRequest and is not ignored has a start
\* record exactly when logRequestStart is true or is a function that returns
\* a truthy value for it; the record is at info level with the message
\* 'request start' or the custom one.  The decision is per request.
C14_StartRecordIffWanted ==
  \A rid \in DOMAIN requests :
    (requests[rid].stage # "new" /\ ~IgnoreDecision(options, requests[rid])) =>
       /\ Indices("start", rid) # {} <=> StartWanted(options, requests[rid])
       /\ \A i \in Indices("start", rid) :
            records[i].level = "info" /\ records[i].msg = StartMessage(options)

\* two requests of one registration, neither ignored: one has a start
\* record, the other has none
C14_Witness ==
  \E r1, r2 \in DOMAIN requests :
    /\ requests[r1].stage # "new" /\ requests[r2].stage # "new"
    /\ ~IgnoreDecision(options, requests[r1])
    /\ ~IgnoreDecision(options, requests[r2])
    /\ Indices("start", r1) # {}
    /\ Indices("start", r2) = {}

\* options.logRequestComplete turns the completion record of this request off
CompleteRefused(o, request) ==
  /\ Has(o, "logRequestComplete")
  /\ \/ o.logRequestComplete = "false"
     \/ /\ o.logRequestComplete \in PredicateFunctions
        /\ ~Truthy(CallPredicate(o.logRequestComplete, request))

\* C15: with 'response' enabled, a request that is not ignored and has had
\* its response has an info-level completion record unless
\* logRequestComplete is false or is a function that returns a falsy value
\* for it; with the option not passed it has one.
C15_CompleteUnlessRefused ==
  \A rid \in DOMAIN requests :
    (requests[rid].stage = "done" /\ ~IgnoreDecision(options, requests[rid])
       /\ "response" \in EnabledNames(options)) =>
       /\ Indices("complete", rid) # {} <=> ~CompleteRefused(options, requests[rid])
       /\ \A i \in Indices("complete", rid) : records[i].level = "info"

\* a completion record was made under a logRequestComplete function, for a
\* registration that lists 'response' in logEvents
C15_Witness ==
  \E rid \in DOMAIN requests :
    /\ Has(options, "logRequestComplete")
    /\ options.logRequestComplete \in PredicateFunctions
    /\ Has(options, "logEvents")
    /\ requests[rid].stage = "done"
    /\ Indices("complete", rid) # {}

\* the time the host recorded for a response, measured from its receipt
Elapsed(info) ==
  IF "completed" \in DOMAIN info
  THEN info.completed - info.received
  ELSE info.responded - info.received

\* C16: the responseTime of a completion record is info.completed -
\* info.received when info.completed is defined and info.responded -
\* info.received otherwise, and the completion message builder is handed
\* the same value.
C16_ResponseTime ==
  \A rid \in DOMAIN requests :
    \A i \in Indices("complete", rid) :
      /\ records[i].obj.responseTime = Elapsed(requests[rid].response.info)
      /\ records[i].msgTime = Elapsed(requests[rid].response.info)

\* a completion record of a request that has both timestamps, which differ
C16_Witness ==
  \E rid \in DOMAIN requests :
    /\ Indices("complete", rid) # {}
    /\ "completed" \in DOMAIN requests[rid].response.info
    /\ requests[rid].response.info.completed = 0
    /\ requests[rid].response.info.responded = 12
    /\ \A i \in Indices("complete", rid) : records[i].obj.responseTime = 0 - 10

FlagOn(o, flag) == flag \in DOMAIN o /\ o[flag] = "true"

\* C17: a completion record holds payload, queryParams, pathParams, tags
\* only when logPayload, logQueryParams, logPathParams, logRouteTags are
\* enabled, holds err only when log4xxResponseErrors is enabled and the
\* status code is in 400..499, and always holds res and responseTime.
C17_CompleteFields ==
  \A rid \in DOMAIN requests :
    \A i \in Indices("complete", rid) :
      /\ "payload" \in DOMAIN records[i].obj => FlagOn(options, "logPayload")
      /\ "queryParams" \in DOMAIN records[i].obj => FlagOn(options, "logQueryParams")
      /\ "pathParams" \in DOMAIN records[i].obj => FlagOn(options, "logPathParams")
      /\ "tags" \in DOMAIN records[i].obj => FlagOn(options, "logRouteTags")
      /\ records[i].err # "undefined" =>
           /\ FlagOn(options, "log4xxResponseErrors")
           /\ requests[rid].response.statusCode >= 400
           /\ requests[rid].response.statusCode < 500
      /\ {"res", "responseTime"} \subseteq DOMAIN records[i].obj

\* a completion record of a 404 response that holds all the optional fields
C17_Witness ==
  \E rid \in DOMAIN requests :
    /\ requests[rid].response.statusCode = 404
    /\ \E i \in Indices("complete", rid) :
         /\ {"payload", "queryParams", "pathParams", "tags", "res", "responseTime"}
              \subseteq DOMAIN records[i].obj
         /\ records[i].obj.tags = <<"foo">>
         /\ records[i].err = "source"

\* the objects the caller owns, the stream and the instance aside
CallerOwned ==
  {CallerOptions, CallerSerializers, CallerTransport} \cap DOMAIN CallerHeap(options)

\* C18: after register the options object the caller passed, and the
\* objects it holds (the stream and the instance aside), are as they were
\* before, while register's own copy holds serializers, logEvents and,
\* without an instance, a stream.
C18_OptionsNotMutated ==
  (regState # "pending") =>
     /\ \A a \in CallerOwned : heap[a] = CallerHeap(options)[a]
     /\ {"serializers", "logEvents"} \subseteq DOMAIN heap[OwnOptions]
     /\ {"err", "req", "res"} \subseteq DOMAIN heap[heap[OwnOptions].serializers.ref]
     /\ ~Has(options, "instance") => "stream" \in DOMAIN heap[OwnOptions]

\* register has filled in defaults for a caller that passed serializers
\* without err, a transport without caller, and no logEvents and no stream
C18_Witness ==
  /\ regState = "registered"
  /\ Has(options, "serializers") /\ "err" \notin DOMAIN options.serializers
  /\ Has(options, "transport") /\ "caller" \notin DOMAIN options.transport
  /\ ~Has(options, "logEvents") /\ ~Has(options, "stream")
  /\ "caller" \in DOMAIN heap[OwnTransport]
  /\ "err" \in DOMAIN heap[OwnSerializers]
  /\ "logEvents" \in DOMAIN heap[OwnOptions]

\* the serializers of the instance before and after register, and those the
\* caller passed in options.serializers
InstanceBefore == options.instance.serializers

InstanceAfter == heap[Instance].serializers.val

PassedSerializers ==
  IF Has(options, "serializers") THEN options.serializers ELSE EmptyObject

\* the keys that register adds to an instance that lacks them
AddedKeys == (DOMAIN PassedSerializers \cup {"req", "res", "err"}) \ DOMAIN InstanceBefore

\* the serializer options.serializers or the plugin's defaults give to a key
Offered(k) == IF k \in DOMAIN PassedSerializers THEN PassedSerializers[k].fn ELSE "std." \o k

C19_OwnIgnoredEventTagsOnly ==
  (delivered.via # "none" /\ delivered.event.channel = "app"
     /\ delivered.event.error = "undefined") =>
     (delivered.made = 0
        <=> Listed(OwnEntry(options, delivered.via), delivered.event.tags))

\* the standard severity names
SeverityNames == {"trace", "debug", "info", "warn", "error", "fatal"}

\* the entries the caller passed in options.tags
GivenTags == IF Has(options, "tags") THEN options.tags ELSE EmptyObject

\* C21: the tag-to-level map register builds is the default map (each
\* standard severity name mapped to itself) overlaid with options.tags: a
\* user entry replaces the default of its tag or adds a tag, the other
\* defaults stay, an event with one tag is logged at the level the map
\* gives it, and the module-level default table stays as it was, whatever
\* this and the other registrations of the process passed.
C21_TagMapOverlay ==
  /\ DOMAIN heap[LevelTags] = SeverityNames
  /\ \A t \in SeverityNames : heap[LevelTags][t].val = t
  /\ (regState # "pending") =>
       /\ DOMAIN heap[TagToLevels] = SeverityNames \cup DOMAIN GivenTags
       /\ \A t \in DOMAIN heap[TagToLevels] :
            heap[TagToLevels][t].val =
              (IF t \in DOMAIN GivenTags THEN GivenTags[t] ELSE t)
  /\ (records # <<>> /\ LastRecord.kind = "event" /\ Len(lastEvent.tags) = 1) =>
       LET t == lastEvent.tags[1]
       IN  LastRecord.level =
             (IF t \in DOMAIN GivenTags THEN GivenTags[t]
              ELSE IF t \in SeverityNames THEN t ELSE "info")

\* registered with tags { error: 'debug', aaa: 'error' } after another
\* server registered with { error: 'info' }; server.log(['error']) came out
\* at debug
C21_Witness ==
  /\ regState = "registered"
  /\ GivenTags = [error |-> "debug", aaa |-> "error"]
  /\ ("tags" :> [error |-> "info"]) \in peers
  /\ heap[PeerTagToLevels].error.val = "info"
  /\ heap[TagToLevels].warn.val = "warn"
  /\ records # <<>> /\ LastRecord.kind = "event" /\ LastRecord.rid = 0
  /\ lastEvent.tags = <<"error">>
  /\ LastRecord.level = "debug"

\* the events of the script that both servers have handled
HandledByBoth ==
  DOMAIN twin.servers[1].outcomes \cap DOMAIN twin.servers[2].outcomes

IsHostError(event) ==
  /\ event.error # "undefined"
  /\ \/ event.channel = "error"
     \/ event.channel = "internal" /\ "accept-encoding" \in Range(event.tags)

ExpectedBindings(rid) ==
  IF Has(options, "getChildBindings")
  THEN CallGetChildBindings(options.getChildBindings, rid)
  ELSE [req |-> "request", requestId |-> "absent", owner |-> rid]

\* the step is a 'request' event of the request that the listener does not
\* drop at its first test: an app or error channel event, or an internal one
\* tagged accept-encoding
RequestEventStep(rid) ==
  /\ nEvents' = nEvents + 1
  /\ delivered'.via = "request" /\ delivered'.rid = rid
  /\ \/ delivered'.event.channel # "internal"
     \/ "accept-encoding" \in Range(delivered'.event.tags)

\* the step is the 'response' event of the request, with 'response' in
\* logEvents and the completion record not turned off
CompletionStep(rid) ==
  /\ requests[rid].stage = "active" /\ requests'[rid].stage = "done"
  /\ "response" \in EnabledNames(options)
  /\ ~CompleteRefused(options, requests[rid])

\* C24: when a 'request' event or a 'response' event is handled for a
\* request that is not ignored and has no request.logger, the listener makes
\* a child logger from getChildBindings(request) and leaves it on the
\* request, and the record it makes (always one at completion) carries the
\* bindings of that request.
C24_LazyChildLogger ==
  [][\A rid \in DOMAIN requests :
       (/\ requests[rid].stage = "active"
        /\ requests[rid].logger.kind = "absent"
        /\ ~IgnoreDecision(options, requests[rid])
        /\ RequestEventStep(rid) \/ CompletionStep(rid)) =>
          /\ requests'[rid].logger = Child(ExpectedBindings(rid))
          /\ CompletionStep(rid) => Len(records') = Len(records) + 1
          /\ Len(records') > Len(records) =>
               /\ records'[Len(records')].rid = rid
               /\ records'[Len(records')].bindings = ExpectedBindings(rid)]_vars

\* a request whose logger the application removed got a completion record
\* with the bindings of a custom getChildBindings, and has a logger again
C24_Witness ==
  \E rid \in DOMAIN requests :
    /\ requests[rid].removed
    /\ requests[rid].stage = "done"
    /\ requests[rid].logger.kind = "pino"
    /\ Has(options, "getChildBindings")
    /\ LastRecord.kind = "complete"
    /\ LastRecord.bindings.requestId = "request1234"
    /\ Indices("start", rid) = {}

\* C25: whatever the interleaving of the events of two requests in
\* flight, every record made through a request's logger carries the
\* bindings computed from that request, and whether a request is silent
\* (ignored), has a start record and has a completion record follows from
\* that request's own path and route tags alone.
C25_RequestsIndependent ==
  /\ \A i \in DOMAIN records :
       records[i].rid # 0 => records[i].bindings = ExpectedBindings(records[i].rid)
  /\ \A rid \in DOMAIN requests :
       /\ (requests[rid].stage # "new" /\ IgnoreDecision(options, requests[rid])) =>
            \A i \in DOMAIN records : records[i].rid # rid
       /\ (requests[rid].stage # "new" /\ ~IgnoreDecision(options, requests[rid])) =>
            (Indices("start", rid) # {} <=> StartWanted(options, requests[rid]))
       /\ (requests[rid].stage = "done" /\ ~IgnoreDecision(options, requests[rid])) =>
            (Indices("complete", rid) # {} <=> ~CompleteRefused(options, requests[rid]))

\* two requests on different paths were in flight together: the second got
\* a record between the start and the completion record of the first, and
\* no completion record of its own
C25_Witness ==
  \E i, j, k \in DOMAIN records :
    /\ i < j /\ j < k
    /\ records[i].kind = "start" /\ records[i].bindings.owner = 1
    /\ records[j].rid = 2 /\ records[j].bindings.owner = 2
    /\ records[k].kind = "complete" /\ records[k].bindings.owner = 1
    /\ requests[1].path # requests[2].path
    /\ Indices("complete", 2) = {} /\ requests[2].stage = "done"

\* the option holds a function that throws
Faulty(key) == key \in DOMAIN options /\ options[key] = "throws"

\* the step runs the onRequest extension for the request
OnRequestStep(rid) == requests[rid].stage = "new" /\ requests'[rid].stage = "active"

\* the step runs the 'response' listener for the request
ResponseStep(rid) ==
  /\ requests[rid].stage = "active" /\ requests'[rid].stage = "done"
  /\ "response" \in EnabledNames(options)

\* the handler that runs in the step calls a user-supplied function that
\* throws: ignoreFunc in each handler; for a request that is not ignored the
\* logRequestStart predicate and, when a start record is due, the start
\* message builder at onRequest; the error message builder on a 'request'
\* event with an error; the logRequestComplete predicate and, when a
\* completion record is due, the completion message builder at 'response'
CallsFaulty(rid) ==
  LET ignored == IgnoreDecision(options, requests'[rid])
      startDue == Faulty("logRequestStart") \/ StartWanted(options, requests'[rid])
      completeDue == Faulty("logRequestComplete")
                       \/ ~CompleteRefused(options, requests[rid])
  IN  \/ /\ OnRequestStep(rid)
         /\ \/ Faulty("ignoreFunc")
            \/ ~ignored /\ Faulty("logRequestStart")
            \/ ~ignored /\ startDue /\ Faulty("customRequestStartMessage")
      \/ /\ RequestEventStep(rid)
         /\ \/ Faulty("ignoreFunc")
            \/ /\ ~ignored /\ delivered'.event.error # "undefined"
               /\ "request-error" \in EnabledNames(options)
               /\ Faulty("customRequestErrorMessage")
      \/ /\ ResponseStep(rid)
         /\ \/ Faulty("ignoreFunc")
            \/ ~ignored /\ Faulty("logRequestComplete")
            \/ ~ignored /\ completeDue /\ Faulty("customRequestCompleteMessage")

\* C26: when ignoreFunc, a logRequestStart / logRequestComplete predicate
\* or a custom message builder throws while a handler runs for a request,
\* the exception leaves the handler, and the handler has made no call on the
\* logger.
C26_UserThrowPropagates ==
  [][\A rid \in DOMAIN requests :
       /\ CallsFaulty(rid) <=> requests'[rid].threw # requests[rid].threw
       /\ CallsFaulty(rid) => records' = records]_vars

\* a request went through onRequest, a failure report and response under a
\* start predicate and message builders that throw: each handler threw and
\* nothing was logged for the request
C26_Witness ==
  \E rid \in DOMAIN requests :
    /\ ~Faulty("ignoreFunc") /\ Faulty("logRequestStart")
    /\ ~Faulty("logRequestComplete") /\ Faulty("customRequestCompleteMessage")
    /\ requests[rid].threw = <<"onRequest", "request", "response">>
    /\ requests[rid].hostErrors = 1
    /\ requests[rid].logger.kind = "pino"
    /\ \A i \in DOMAIN records : records[i].rid # rid

\* C27: a request that holds the no-op logger (given to it at onRequest,
\* when it was ignored) gets no record from any later handler run, also
\* when the request is not ignored any more by the time of that run.
C27_NullLoggerStaysSilent ==
  [][\A rid \in DOMAIN requests :
       requests[rid].logger.kind = "null" =>
         \A i \in DOMAIN records' : records'[i].rid # rid]_vars

\* a request ignored at onRequest was moved to a path that is not ignored,
\* then failed and got its response: it still holds the no-op logger and has
\* no record
C27_Witness ==
  \E rid \in DOMAIN requests :
    /\ requests[rid].logger.kind = "null"
    /\ requests[rid].stage = "done"
    /\ ~IgnoreDecision(options, requests[rid])
    /\ requests[rid].hostErrors = 1
    /\ delivered.via = "request" /\ delivered.rid = rid /\ delivered.made = 0
    /\ \A i \in DOMAIN records : records[i].rid # rid

\* C28: with logEvents false, null or the empty list, none of the four
\* named records (server started, server stopped, completion, request
\* error) is made, while a request still gets its start record at onRequest
\* when logRequestStart is true, and every server.log event and every
\* request.log event without an error still makes one record.
C28_LogEventsOnlyGatesFour ==
  (EnabledNames(options) = {}) =>
     /\ \A i \in DOMAIN records :
          records[i].kind \notin {"started", "stopped", "complete", "request-error"}
     /\ \A rid \in DOMAIN requests :
          (requests[rid].stage # "new" /\ FlagOn(options, "logRequestStart")) =>
             Cardinality(Indices("start", rid)) = 1
     /\ (delivered.via # "none" /\ delivered.event.channel = "app"
           /\ delivered.event.error = "undefined") => delivered.made = 1

\* a server registered with logEvents: false and logRequestStart: true has
\* served a request that called request.log, and has stopped: the start
\* record and the request.log record are all there is
C28_Witness ==
  /\ options.logEvents = LogEventsFalse
  /\ serverPhase = "stopped"
  /\ \E rid \in DOMAIN requests :
       /\ requests[rid].stage = "done"
       /\ delivered.via = "request" /\ delivered.rid = rid /\ delivered.made = 1
       /\ Indices("start", rid) # {} /\ Indices("event", rid) # {}
  /\ Len(records) = 2

\* the event's data is an object with a tags property of its own
DataHasTags(event) == event.data.kind = "object" /\ "tags" \in DOMAIN event.data.fields

\* C29, as stated: with mergeHapiLogData enabled, the tags field of the
\* record logEvent makes equals the event's tag list, also when the event's
\* data is an object with a tags property of its own.
C29_TagsAreEventTags ==
  (LoggedPlainEvent /\ MergeEnabled) => LastRecord.obj.tags = lastEvent.tags

\* C29, amended: with mergeHapiLogData enabled, the tags field of the record
\* equals the event's tag list unless the event's data is an object with a
\* tags property of its own; then it equals that property.
C29_TagsFromDataWhenPresent ==
  (LoggedPlainEvent /\ MergeEnabled) =>
     LastRecord.obj.tags =
       (IF DataHasTags(lastEvent) THEN lastEvent.data.fields.tags ELSE lastEvent.tags)

\* server.log(['error'], { tags: ['mine'] }) was logged in merge mode at
\* error level with tags ['mine']
C29_Witness ==
  /\ LoggedPlainEvent /\ MergeEnabled
  /\ LastRecord.rid = 0
  /\ lastEvent.tags = <<"error">>
  /\ DataHasTags(lastEvent)
  /\ LastRecord.level = "error"
  /\ LastRecord.obj.tags = <<"mine">>

\* some element of options.ignoreTags is an element of the route's tags
TagMatch(o, request) ==
  /\ "ignoreTags" \in DOMAIN o
  /\ request.hasRouteTags
  /\ \E i \in DOMAIN o.ignoreTags, j \in DOMAIN request.routeTags :
       o.ignoreTags[i] = request.routeTags[j]

\* C30: without ignoreFunc and for a path that is not in ignorePaths, a
\* request is ignored (it gets no start record although logRequestStart is
\* true, and no completion record) exactly when some element of
\* options.ignoreTags is among the tags of its route; without ignoreTags,
\* with an empty ignoreTags or for a route without tags it never is.
C30_IgnoredByTagIffShared ==
  \A rid \in DOMAIN requests :
    (/\ requests[rid].stage # "new"
     /\ ~Has(options, "ignoreFunc")
     /\ ~(Has(options, "ignorePaths")
           /\ requests[rid].path \in Range(options.ignorePaths))) =>
       /\ Indices("start", rid) = {} <=> TagMatch(options, requests[rid])
       /\ requests[rid].stage = "done" =>
            (Indices("complete", rid) = {} <=> TagMatch(options, requests[rid]))
       /\ TagMatch(options, requests[rid]) =>
            \A i \in DOMAIN records : records[i].rid # rid

\* a request to a route tagged bar and baz was ignored under ignoreTags
\* ['bar', 'foo'] and ignorePaths that do not list its path
C30_Witness ==
  \E rid \in DOMAIN requests :
    /\ Has(options, "ignoreTags") /\ options.ignoreTags = <<"bar", "foo">>
    /\ Has(options, "ignorePaths")
    /\ requests[rid].stage = "done"
    /\ requests[rid].path = "/foo"
    /\ requests[rid].routeTags = <<"bar", "baz">>
    /\ nEvents = 1
    /\ \A i \in DOMAIN records : records[i].rid # rid

====
